---- MODULE Spec2Model ----
(***************************************************************************)
(* Model of src/app.py, the Mergington High School activities API:         *)
(* the in-memory activity registry, the teacher directory, the cookie      *)
(* session guard and the HTTP handlers that read and write them.           *)
(*                                                                         *)
(* Strings the code only compares (emails, activity names, passwords) are  *)
(* TLA+ strings.  Strings the code transforms (the username, which login   *)
(* strips, and so the cookie value) are sequences of one-character         *)
(* strings, so that strip() is computed and not assumed.                   *)
(***************************************************************************)
EXTENDS Integers, Sequences, FiniteSets, TLC

VARIABLES
    activities,   \* app.py:51  name -> [description, schedule, max_participants, participants]
    TEACHERS,     \* app.py:37  username -> password, loaded once at startup
    cookie,       \* the client's cookie jar entry "session_user" (None when absent)
    req,          \* the request handled last
    resp,         \* the response to it
    seen,         \* which of login / logout have completed successfully so far
    threads       \* worker threads of the concurrent deployment (pc and locals)

vars == <<activities, TEACHERS, cookie, req, resp, seen, threads>>

----------------------------------------------------------------------------
(* Bounds *)

\* Longest run of whitespace put on each side of a submitted username.
MaxPad == 1

\* Number of earlier signups to Math Club in the start state of SpecCap.
NumFill == 7

----------------------------------------------------------------------------
(* Values *)

\* Python's None, as the value of request.cookies.get for an absent cookie.
None == <<"None">>

Range(s) == {s[i] : i \in 1..Len(s)}

anna == <<"a", "n", "n", "a">>
bob == <<"b", "o", "b">>
zed == <<"z", "e", "d">>

\* Characters str.strip() removes when called without argument (the ASCII
\* ones that a TLA+ string can hold).
Whitespace == {" ", "\t", "\n", "\r", "\f"}

RECURSIVE lstrip(_)
lstrip(s) ==
    IF s # <<>> /\ Head(s) \in Whitespace THEN lstrip(Tail(s)) ELSE s

RECURSIVE rstrip(_)
rstrip(s) ==
    IF s # <<>> /\ s[Len(s)] \in Whitespace
    THEN rstrip(SubSeq(s, 1, Len(s) - 1))
    ELSE s

strip(s) == rstrip(lstrip(s))

\* dict.get(key, default)
Get(d, key, default) == IF key \in DOMAIN d THEN d[key] ELSE default

----------------------------------------------------------------------------
(* The teacher directory: what lines 33-39 can load.  An absent file gives *)
(* the empty directory.  Usernames of the file are taken to be non-empty   *)
(* and free of surrounding whitespace.                                     *)

EmptyDict == [k \in {} |-> ""]

TeacherDirs ==
    { EmptyDict,
      [u \in {anna} |-> "pw1"],
      [u \in {anna, bob} |-> IF u = anna THEN "pw1" ELSE "pw2"] }

----------------------------------------------------------------------------
(* The activity registry as the module defines it. *)

Activity(d, s, m, p) ==
    [description |-> d, schedule |-> s, max_participants |-> m, participants |-> p]

InitActivities ==
    [n \in {"Chess Club", "Programming Class", "Gym Class", "Soccer Team",
            "Basketball Team", "Art Club", "Drama Club", "Math Club",
            "Debate Team"} |->
       CASE n = "Chess Club" ->
              Activity("Learn strategies and compete in chess tournaments",
                       "Fridays, 3:30 PM - 5:00 PM", 12,
                       <<"michael@mergington.edu", "daniel@mergington.edu">>)
         [] n = "Programming Class" ->
              Activity("Learn programming fundamentals and build software projects",
                       "Tuesdays and Thursdays, 3:30 PM - 4:30 PM", 20,
                       <<"emma@mergington.edu", "sophia@mergington.edu">>)
         [] n = "Gym Class" ->
              Activity("Physical education and sports activities",
                       "Mondays, Wednesdays, Fridays, 2:00 PM - 3:00 PM", 30,
                       <<"john@mergington.edu", "olivia@mergington.edu">>)
         [] n = "Soccer Team" ->
              Activity("Join the school soccer team and compete in matches",
                       "Tuesdays and Thursdays, 4:00 PM - 5:30 PM", 22,
                       <<"liam@mergington.edu", "noah@mergington.edu">>)
         [] n = "Basketball Team" ->
              Activity("Practice and play basketball with the school team",
                       "Wednesdays and Fridays, 3:30 PM - 5:00 PM", 15,
                       <<"ava@mergington.edu", "mia@mergington.edu">>)
         [] n = "Art Club" ->
              Activity("Explore your creativity through painting and drawing",
                       "Thursdays, 3:30 PM - 5:00 PM", 15,
                       <<"amelia@mergington.edu", "harper@mergington.edu">>)
         [] n = "Drama Club" ->
              Activity("Act, direct, and produce plays and performances",
                       "Mondays and Wednesdays, 4:00 PM - 5:30 PM", 20,
                       <<"ella@mergington.edu", "scarlett@mergington.edu">>)
         [] n = "Math Club" ->
              Activity("Solve challenging problems and participate in math competitions",
                       "Tuesdays, 3:30 PM - 4:30 PM", 10,
                       <<"james@mergington.edu", "benjamin@mergington.edu">>)
         [] n = "Debate Team" ->
              Activity("Develop public speaking and argumentation skills",
                       "Fridays, 4:00 PM - 5:30 PM", 12,
                       <<"charlotte@mergington.edu", "henry@mergington.edu">>)]

----------------------------------------------------------------------------
(* Inputs of the requests *)

ActivityNames == {"Chess Club", "Math Club", "Knitting Club"}

Emails == {"michael@mergington.edu", "new@mergington.edu"}

\* Runs of at most n spaces.
Pads(n) == {[i \in 1..k |-> " "] : k \in 0..n}

Usernames ==
    {l \o u \o r : l \in Pads(MaxPad), u \in {anna, zed}, r \in Pads(MaxPad)}
        \cup {bob, <<>>, <<" ">>, <<"a", "n", " ", "n", "a">>,
              <<"\t">> \o anna \o <<"\n">>}

Passwords == {"pw1", "pw2"}

CredentialInputs ==
    {[username |-> u, password |-> p] : u \in Usernames, p \in Passwords}
        \cup {[username |-> u] : u \in {anna, zed}}
        \cup {[password |-> p] : p \in {"pw1"}}
        \cup {EmptyDict}

\* What a request can carry as the session_user cookie.
CookieValues == {None, <<>>, anna, bob, zed}

----------------------------------------------------------------------------
(* Requests and responses *)

Request(op, activity_name, email, c, credentials) ==
    [op |-> op, activity_name |-> activity_name, email |-> email,
     cookie |-> c, credentials |-> credentials]

\* A response: status code, the detail or message, the /me fields, and the
\* Set-Cookie effect ("set", "delete" or "none").
Response(status, detail, authenticated, username, set_cookie) ==
    [status |-> status, detail |-> detail, authenticated |-> authenticated,
     username |-> username, set_cookie |-> set_cookie]

HTTPException(status, detail) == Response(status, detail, FALSE, None, "none")

Ok(detail) == Response(200, detail, FALSE, None, "none")

----------------------------------------------------------------------------
(* The session guard, app.py:42-47.  Returns the acting user, or raises.   *)

\* Variant: a guard that forgets the directory lookup and lets any non-empty
\* cookie value through.
require_teacher_AnyUser(user) ==
    IF user = None \/ user = <<>>
    THEN [raised |-> TRUE, user |-> None]
    ELSE [raised |-> FALSE, user |-> user]

\* Variant: a guard backed by a server-side session, which lets a teacher
\* through only once a login has succeeded.
require_teacher_Session(user) ==
    IF user = None \/ user = <<>> \/ user \notin DOMAIN TEACHERS \/ "login" \notin seen
    THEN [raised |-> TRUE, user |-> None]
    ELSE [raised |-> FALSE, user |-> user]

\* "not user" holds of None and of the empty string.
require_teacher(user) ==
    IF user = None \/ user = <<>> \/ user \notin DOMAIN TEACHERS
    THEN [raised |-> TRUE, user |-> None]
    ELSE [raised |-> FALSE, user |-> user]

Unauthorized == HTTPException(401, "Teacher login required")

----------------------------------------------------------------------------
(* Bodies of the handlers, as functions of the registry and the arguments: *)
(* the response and the registry afterwards.                               *)

Result(r, acts) == [resp |-> r, activities |-> acts]

WithParticipants(acts, activity_name, p) ==
    [acts EXCEPT ![activity_name].participants = p]

\* Variant: the new participant is inserted at the head of the list.
signup_body_Prepend(acts, activity_name, email) ==
    IF activity_name \notin DOMAIN acts
    THEN Result(HTTPException(404, "Activity not found"), acts)
    ELSE IF email \in Range(acts[activity_name].participants)
    THEN Result(HTTPException(400, "Student is already signed up"), acts)
    ELSE Result(Ok("Signed up"),
                WithParticipants(acts, activity_name,
                                 <<email>> \o acts[activity_name].participants))

\* Variant: the membership test of lines 130-134 is left out.
signup_body_NoDupCheck(acts, activity_name, email) ==
    IF activity_name \notin DOMAIN acts
    THEN Result(HTTPException(404, "Activity not found"), acts)
    ELSE Result(Ok("Signed up"),
                WithParticipants(acts, activity_name,
                                 Append(acts[activity_name].participants, email)))

\* Variant: a signup to a full activity is refused.
signup_body_CapacityEnforced(acts, activity_name, email) ==
    IF activity_name \notin DOMAIN acts
    THEN Result(HTTPException(404, "Activity not found"), acts)
    ELSE IF email \in Range(acts[activity_name].participants)
    THEN Result(HTTPException(400, "Student is already signed up"), acts)
    ELSE IF Len(acts[activity_name].participants) >= acts[activity_name].max_participants
    THEN Result(HTTPException(400, "Activity is full"), acts)
    ELSE Result(Ok("Signed up"),
                WithParticipants(acts, activity_name,
                                 Append(acts[activity_name].participants, email)))

\* app.py:122-138
signup_body(acts, activity_name, email) ==
    IF activity_name \notin DOMAIN acts
    THEN Result(HTTPException(404, "Activity not found"), acts)
    ELSE IF email \in Range(acts[activity_name].participants)
    THEN Result(HTTPException(400, "Student is already signed up"), acts)
    ELSE Result(Ok("Signed up"),
                WithParticipants(acts, activity_name,
                                 Append(acts[activity_name].participants, email)))

\* app.py:141-143: the function's body is its docstring alone, so it returns
\* None (200, body null) whatever the arguments; the statements that look up
\* and remove the participant stand after the return of me() (175-191) and
\* are never executed.
unregister_body(acts, activity_name, email) ==
    Result(Ok("null"), acts)

\* Variant: the set_cookie call of line 156 is left out.
login_body_NoCookie(credentials) ==
    LET username == strip(Get(credentials, "username", <<>>))
        password == Get(credentials, "password", "")
    IN  IF username \in DOMAIN TEACHERS /\ TEACHERS[username] = password
        THEN Response(200, "Login successful", FALSE, username, "none")
        ELSE HTTPException(401, "Invalid credentials")

\* Variant: the password comparison of line 152 is left out.
login_body_NoPassword(credentials) ==
    LET username == strip(Get(credentials, "username", <<>>))
    IN  IF username \in DOMAIN TEACHERS
        THEN Response(200, "Login successful", FALSE, username, "set")
        ELSE HTTPException(401, "Invalid credentials")

\* app.py:150-158
login_body(credentials) ==
    LET username == strip(Get(credentials, "username", <<>>))
        password == Get(credentials, "password", "")
    IN  IF username \in DOMAIN TEACHERS /\ TEACHERS[username] = password
        THEN Response(200, "Login successful", FALSE, username, "set")
        ELSE HTTPException(401, "Invalid credentials")

\* app.py:163-165
logout_body == Response(200, "Logged out", FALSE, None, "delete")

\* app.py:170-173
me_body(user) ==
    IF user # None /\ user # <<>> /\ user \in DOMAIN TEACHERS
    THEN Response(200, "", TRUE, user, "none")
    ELSE Response(200, "", FALSE, None, "none")

\* The client's jar after a response: Set-Cookie stores the value,
\* delete_cookie removes it.
Jar(jar, r) ==
    CASE r.set_cookie = "set" -> r.username
      [] r.set_cookie = "delete" -> None
      [] OTHER -> jar

----------------------------------------------------------------------------
(* The handlers, one request at a time.  A handler that reads the cookie  *)
(* takes the value the request presents; the others are sent the jar's.   *)

Exchange(op, activity_name, email, c, credentials, r) ==
    /\ req' = Request(op, activity_name, email, c, credentials)
    /\ resp' = r
    /\ cookie' = Jar(cookie, r)

\* app.py:109-111
root ==
    /\ Exchange("root", "", "", cookie, EmptyDict,
                Response(307, "/static/index.html", FALSE, None, "none"))
    /\ UNCHANGED <<activities, TEACHERS, seen, threads>>

\* app.py:114-116
get_activities ==
    /\ Exchange("list", "", "", cookie, EmptyDict, Ok("activities"))
    /\ UNCHANGED <<activities, TEACHERS, seen, threads>>

\* app.py:119-138, the dependency first
signup_for_activity(activity_name, email, c) ==
    LET t == require_teacher(c)
        r == signup_body(activities, activity_name, email)
    IN  /\ IF t.raised
           THEN /\ Exchange("signup", activity_name, email, c, EmptyDict, Unauthorized)
                /\ UNCHANGED activities
           ELSE /\ Exchange("signup", activity_name, email, c, EmptyDict, r.resp)
                /\ activities' = r.activities
        /\ UNCHANGED <<TEACHERS, seen, threads>>

\* app.py:141-143, the dependency first
unregister_from_activity(activity_name, email, c) ==
    LET t == require_teacher(c)
        r == unregister_body(activities, activity_name, email)
    IN  /\ IF t.raised
           THEN /\ Exchange("unregister", activity_name, email, c, EmptyDict, Unauthorized)
                /\ UNCHANGED activities
           ELSE /\ Exchange("unregister", activity_name, email, c, EmptyDict, r.resp)
                /\ activities' = r.activities
        /\ UNCHANGED <<TEACHERS, seen, threads>>

\* app.py:144-158
login(credentials) ==
    LET r == login_body(credentials)
    IN  /\ Exchange("login", "", "", cookie, credentials, r)
        /\ seen' = IF r.status = 200 THEN seen \cup {"login"} ELSE seen
        /\ UNCHANGED <<activities, TEACHERS, threads>>

\* app.py:161-165
logout ==
    /\ Exchange("logout", "", "", cookie, EmptyDict, logout_body)
    /\ seen' = seen \cup {"logout"}
    /\ UNCHANGED <<activities, TEACHERS, threads>>

\* app.py:168-173
me(c) ==
    /\ Exchange("me", "", "", c, EmptyDict, me_body(c))
    /\ UNCHANGED <<activities, TEACHERS, seen, threads>>

----------------------------------------------------------------------------
(* Specification: requests handled one at a time *)

Threads == {1, 2}

ThreadIdle ==
    [pc |-> "idle", activity_name |-> "", email |-> "", cookie |-> None, status |-> 0]

NoRequest == Request("none", "", "", None, EmptyDict)

NoResponse == Response(0, "", FALSE, None, "none")

InitWith(acts) ==
    /\ activities = acts
    /\ TEACHERS \in TeacherDirs
    /\ cookie = None
    /\ req = NoRequest
    /\ resp = NoResponse
    /\ seen = {}
    /\ threads = [t \in Threads |-> ThreadIdle]

Init == InitWith(InitActivities)

Next ==
    \/ root
    \/ get_activities
    \/ \E a \in ActivityNames, e \in Emails, c \in CookieValues :
           signup_for_activity(a, e, c)
    \/ \E a \in ActivityNames, e \in Emails, c \in CookieValues :
           unregister_from_activity(a, e, c)
    \/ \E cr \in CredentialInputs : login(cr)
    \/ logout
    \/ \E c \in CookieValues : me(c)

Spec == Init /\ [][Next]_vars

----------------------------------------------------------------------------
(* Specification: the registry near capacity.  The start state is the one  *)
(* reached from Init by NumFill authorized signups to Math Club.           *)

FillEmail(i) == "student" \o ToString(i) \o "@mergington.edu"

RECURSIVE Filled(_)
Filled(i) ==
    IF i = 0 THEN InitActivities
    ELSE signup_body(Filled(i - 1), "Math Club", FillEmail(i)).activities

InitCap == InitWith(Filled(NumFill))

SpecCap == InitCap /\ [][Next]_vars

----------------------------------------------------------------------------
(* Specification: two signup requests served by two worker threads.  The   *)
(* handler is a plain def, which the framework runs in a thread pool; the  *)
(* threads interleave between the statements of signup_for_activity.       *)

ConcActivityNames == {"Chess Club", "Knitting Club"}

ConcCookies == {None, anna}

Goto(t, pc, status) ==
    threads' = [threads EXCEPT ![t].pc = pc, ![t].status = status]

\* a request arrives and is bound to a worker
SignupStart(t, activity_name, email, c) ==
    /\ threads[t].pc = "idle"
    /\ threads' = [threads EXCEPT ![t] =
           [pc |-> "guard", activity_name |-> activity_name, email |-> email,
            cookie |-> c, status |-> 0]]
    /\ UNCHANGED <<activities, TEACHERS, cookie, req, resp, seen>>

\* app.py:42-47
SignupGuard(t) ==
    /\ threads[t].pc = "guard"
    /\ IF require_teacher(threads[t].cookie).raised
       THEN Goto(t, "done", 401)
       ELSE Goto(t, "lookup", 0)
    /\ UNCHANGED <<activities, TEACHERS, cookie, req, resp, seen>>

\* app.py:123-127
SignupLookup(t) ==
    /\ threads[t].pc = "lookup"
    /\ IF threads[t].activity_name \notin DOMAIN activities
       THEN Goto(t, "done", 404)
       ELSE Goto(t, "check", 0)
    /\ UNCHANGED <<activities, TEACHERS, cookie, req, resp, seen>>

\* app.py:130-134
SignupCheck(t) ==
    /\ threads[t].pc = "check"
    /\ IF threads[t].email \in Range(activities[threads[t].activity_name].participants)
       THEN Goto(t, "done", 400)
       ELSE Goto(t, "append", 0)
    /\ UNCHANGED <<activities, TEACHERS, cookie, req, resp, seen>>

\* Variant: test and append under one lock, the test repeated before the
\* append.
SignupAppend_Recheck(t) ==
    /\ threads[t].pc = "append"
    /\ IF threads[t].email \in Range(activities[threads[t].activity_name].participants)
       THEN /\ Goto(t, "done", 400)
            /\ UNCHANGED activities
       ELSE /\ activities' = WithParticipants(activities, threads[t].activity_name,
                Append(activities[threads[t].activity_name].participants, threads[t].email))
            /\ Goto(t, "done", 200)
    /\ UNCHANGED <<TEACHERS, cookie, req, resp, seen>>

\* app.py:137-138
SignupAppend(t) ==
    /\ threads[t].pc = "append"
    /\ activities' = WithParticipants(activities, threads[t].activity_name,
           Append(activities[threads[t].activity_name].participants, threads[t].email))
    /\ Goto(t, "done", 200)
    /\ UNCHANGED <<TEACHERS, cookie, req, resp, seen>>

NextConc ==
    \/ \E t \in Threads, a \in ConcActivityNames, e \in Emails, c \in ConcCookies :
           SignupStart(t, a, e, c)
    \/ \E t \in Threads : SignupGuard(t)
    \/ \E t \in Threads : SignupLookup(t)
    \/ \E t \in Threads : SignupCheck(t)
    \/ \E t \in Threads : SignupAppend(t)

SpecConc == Init /\ [][NextConc]_vars

----------------------------------------------------------------------------
(* Vocabulary of the properties *)

\* Number of occurrences of x in the list s.
Count(x, s) == Cardinality({i \in 1..Len(s) : s[i] = x})

\* The cookie value c names a teacher of the directory.
KnownTeacher(c) == c # None /\ c # <<>> /\ c \in DOMAIN TEACHERS

\* The submitted credentials are, as submitted, an entry of the directory.
IsEntry(cr) ==
    /\ "username" \in DOMAIN cr
    /\ "password" \in DOMAIN cr
    /\ cr.username \in DOMAIN TEACHERS
    /\ TEACHERS[cr.username] = cr.password

\* The submitted credentials are an entry of the directory once the username
\* is stripped of surrounding whitespace, a missing field being empty.
IsEntryStripped(cr) ==
    LET u == strip(Get(cr, "username", <<>>))
    IN  u \in DOMAIN TEACHERS /\ TEACHERS[u] = Get(cr, "password", "")

\* The step handles an authorized op request naming a known activity.
AuthorizedOn(op) ==
    /\ req'.op = op
    /\ KnownTeacher(req'.cookie)
    /\ req'.activity_name \in DOMAIN activities

Before == activities[req'.activity_name].participants

After == activities'[req'.activity_name].participants

----------------------------------------------------------------------------
(* Properties *)

\* C1: for a known activity A and an email e not among A's participants, an
\* authorized signup(A, e) answers 200 and appends e to the list, which then
\* holds e exactly once with the earlier entries kept in order; the same
\* request repeated at once answers 400 and leaves the registry unchanged.
C1_SignupAddsOnce ==
    [][ /\ (AuthorizedOn("signup") /\ req'.email \notin Range(Before))
            => /\ resp'.status = 200
               /\ After = Append(Before, req'.email)
               /\ Count(req'.email, After) = 1
        /\ (req.op = "signup" /\ resp.status = 200 /\ req' = req)
            => /\ resp'.status = 400
               /\ activities' = activities ]_vars

\* A new email was signed up and the same signup, repeated, was refused.
C1_Witness ==
    /\ req.op = "signup"
    /\ req.email = "new@mergington.edu"
    /\ req.activity_name = "Chess Club"
    /\ resp.status = 400
    /\ activities["Chess Club"].participants
         = <<"michael@mergington.edu", "daniel@mergington.edu", "new@mergington.edu">>

\* C2: for a known activity A, an authorized unregister(A, e) with e among
\* A's participants answers 200 and removes e; with e not among them it
\* answers 400 and leaves the registry unchanged.
C2_UnregisterRemoves ==
    [][ AuthorizedOn("unregister")
            => IF req'.email \in Range(Before)
               THEN resp'.status = 200 /\ req'.email \notin Range(After)
               ELSE resp'.status = 400 /\ activities' = activities ]_vars

\* C3: a signup or unregister request naming an activity that is not in the
\* registry is answered 404, whatever its email and its cookie.
C3_UnknownActivityNotFound ==
    (req.op \in {"signup", "unregister"} /\ req.activity_name \notin DOMAIN activities)
        => resp.status = 404

\* C4: a signup or unregister request whose cookie is absent, empty or names
\* no teacher of the directory is answered 401 and changes no participants
\* list, whatever the activity name and the email.
C4_UnauthorizedRejected ==
    [][ (req'.op \in {"signup", "unregister"} /\ ~KnownTeacher(req'.cookie))
            => /\ resp'.status = 401
               /\ \A n \in DOMAIN activities :
                      activities'[n].participants = activities[n].participants ]_vars

\* A signup of a new email to a known activity, presenting a cookie that
\* names nobody in a non-empty directory, was refused.
C4_Witness ==
    /\ req.op = "signup"
    /\ req.cookie = zed
    /\ req.activity_name = "Chess Club"
    /\ req.email = "new@mergington.edu"
    /\ resp.status = 401
    /\ anna \in DOMAIN TEACHERS

C6_LoginExactMatch ==
    req.op = "login"
        => /\ (resp.status = 200 /\ resp.set_cookie = "set") <=> IsEntry(req.credentials)
           /\ ~IsEntry(req.credentials) => (resp.status = 401 /\ resp.set_cookie = "none")

\* C6, amended: login answers 200 and sets the cookie, to the stripped
\* username, exactly when the submitted username stripped of surrounding
\* whitespace and the submitted password (a missing field being empty) are
\* an entry of the directory; every other submission is answered 401 and
\* sets no cookie.
C6_LoginStrippedMatch ==
    req.op = "login"
        => /\ IsEntryStripped(req.credentials)
                => /\ resp.status = 200
                   /\ resp.set_cookie = "set"
                   /\ resp.username = strip(req.credentials.username)
           /\ ~IsEntryStripped(req.credentials)
                => resp.status = 401 /\ resp.set_cookie = "none"

\* A login with a padded username succeeded and left the bare name as cookie.
C6_Witness ==
    /\ req.op = "login"
    /\ req.credentials = [username |-> <<" ">> \o anna \o <<" ">>, password |-> "pw1"]
    /\ resp.status = 200
    /\ cookie = anna

\* C7: with requests handled one at a time, no email occurs twice in the
\* participants list of any activity.
C7_NoDuplicates ==
    \A n \in DOMAIN activities :
        \A e \in Range(activities[n].participants) :
            Count(e, activities[n].participants) = 1

\* Both lists have grown, one by an email another activity already had, and
\* requests of the other kinds have been handled since.
C7_Witness ==
    /\ Len(activities["Chess Club"].participants) = 3
    /\ Len(activities["Math Club"].participants) = 4
    /\ seen = {"login", "logout"}
    /\ req.op = "unregister"
    /\ resp.status = 200

\* C8: whether the guard lets a signup or unregister through, and whether
\* /me reports authenticated, is decided by the cookie the request presents
\* and the directory alone; logout answers 200 and changes neither the
\* registry nor the directory.
C8_GuardStateless ==
    [][ /\ req'.op \in {"signup", "unregister"}
            => (resp'.status # 401 <=> KnownTeacher(req'.cookie))
        /\ req'.op = "me"
            => (resp'.authenticated <=> KnownTeacher(req'.cookie))
        /\ req'.op = "logout"
            => /\ resp'.status = 200
               /\ activities' = activities
               /\ TEACHERS' = TEACHERS ]_vars

\* No login ever succeeded, a logout was performed, the client holds no
\* cookie, and a signup presenting a teacher's name was carried out.
C8_Witness ==
    /\ "login" \notin seen
    /\ "logout" \in seen
    /\ cookie = None
    /\ req.op = "signup"
    /\ req.cookie = anna
    /\ resp.status = 200

\* The threads that completed a signup of e to a.
Appended(a, e) ==
    {t \in Threads : /\ threads[t].pc = "done"
                     /\ threads[t].status = 200
                     /\ threads[t].activity_name = a
                     /\ threads[t].email = e}

\* C9: nothing holds the list between the membership test and the append:
\* a request that has passed the test appends its email and answers 200
\* whatever the other request did meanwhile, so the list holds an email
\* once for every request that passed the test for it.
C9_CheckThenAppendRace ==
    /\ [](\A a \in DOMAIN activities, e \in Emails :
             Count(e, activities[a].participants)
               = Count(e, InitActivities[a].participants) + Cardinality(Appended(a, e)))
    /\ [][\A t \in Threads :
             (threads[t].pc = "append" /\ threads'[t].pc # "append")
                => /\ threads'[t].status = 200
                   /\ activities'[threads[t].activity_name].participants
                        = Append(activities[threads[t].activity_name].participants,
                                 threads[t].email)]_vars

\* Both requests signed the same new email up for Chess Club and both
\* succeeded: the email is in the list twice.
C9_Witness ==
    /\ \A t \in Threads : threads[t].pc = "done" /\ threads[t].status = 200
    /\ Count("new@mergington.edu", activities["Chess Club"].participants) = 2

\* C10: an authorized signup of a new email to a known activity whose list
\* already has max_participants entries or more answers 200 and appends the
\* email; no step changes the set of activity names or any activity's
\* description, schedule or max_participants.
C10_NoCapacityLimit ==
    [][ /\ (AuthorizedOn("signup") /\ req'.email \notin Range(Before)
              /\ Len(Before) >= activities[req'.activity_name].max_participants)
            => resp'.status = 200 /\ After = Append(Before, req'.email)
        /\ DOMAIN activities' = DOMAIN activities
        /\ \A n \in DOMAIN activities :
              /\ activities'[n].max_participants = activities[n].max_participants
              /\ activities'[n].description = activities[n].description
              /\ activities'[n].schedule = activities[n].schedule ]_vars

\* Math Club holds more participants than its max_participants, the last of
\* them signed up when the list was already full.
C10_Witness ==
    /\ Len(activities["Math Club"].participants) > activities["Math Club"].max_participants
    /\ req.op = "signup"
    /\ req.activity_name = "Math Club"
    /\ resp.status = 200

====
